---- MODULE Spec2Model ----
(***************************************************************************)
(* State-machine model of the joke-factory account backend: signup with    *)
(* e-mail activation, credential login, update and delete of user rows,    *)
(* and the central error-to-response mapper.                               *)
(*                                                                         *)
(* Messages are sequences of string pieces, so that a translated text, a   *)
(* raw message key and a template string are all values of one type.       *)
(***************************************************************************)
EXTENDS Integers, Sequences, FiniteSets, TLC

\* ---------------------------------------------------------------- bounds
\* Number of signup requests that may reach the create step.
MaxSignups == 2

\* Session tokens issued in a behaviour of the specification with sessions.
MaxSessions == 2

\* Concurrent signup request handlers.
Procs == {"p1", "p2"}

\* ------------------------------------------------------------ input sets
Null == "null"

Usernames == {"user1", "userFree"}
BadUsername == "as"
Emails == {"user1@gmail.com", "user2@gmail.com"}
BadEmail == "email@"
Passwords == {"A4GuaN@SmZ", "JuJ*733H_SDsd@!"}
BadPassword == "P1@a"
Langs == {"en", "id"}
InvalidToken == "invalid-token"

\* Request bodies: every valid body, and bodies that break one rule of the
\* schema (extra names an undeclared field of the payload).
SignUpBodies ==
  [username : Usernames, email : Emails, password : {"A4GuaN@SmZ"},
   extra : {Null}]
  \cup {[username |-> BadUsername, email |-> "user1@gmail.com",
         password |-> "A4GuaN@SmZ", extra |-> Null],
        [username |-> "user1", email |-> BadEmail,
         password |-> BadPassword, extra |-> Null],
        [username |-> "user1", email |-> "user1@gmail.com",
         password |-> "A4GuaN@SmZ", extra |-> "inactive"]}

LoginBodies ==
  [email : Emails, password : Passwords, extra : {Null}]
  \cup {[email |-> BadEmail, password |-> "A4GuaN@SmZ", extra |-> Null],
        [email |-> "user1@gmail.com", password |-> "", extra |-> Null]}

UpdateBodies ==
  [username : Usernames, email : {Null, "user1@gmail.com"}, extra : {Null}]
  \cup {[username |-> BadUsername, email |-> Null, extra |-> Null],
        [username |-> "user1", email |-> Null, extra |-> "inactive"]}

\* ----------------------------------------------------- pure collaborators
\* Localizer: req.t(key).  The result depends on the language and the key
\* and is never the key itself.
T(lang, key) == <<"t", lang, key>>

\* Credential hasher: the stored digest of a plaintext password.
Hash(pw) ==
  CASE pw = "A4GuaN@SmZ"      -> "$2b$10$digest-of-A4GuaN"
    [] pw = "JuJ*733H_SDsd@!" -> "$2b$10$digest-of-JuJ733H"
    [] OTHER                  -> "$2b$10$digest-of-other"

Compare(pw, digest) == Hash(pw) = digest

\* Activation token generator: the n-th token handed out.
GenerateToken(n) == ToString(n)

\* ------------------------------------------------------------ error kinds
\* An error object: its class, its status code, its message key, and the
\* class-specific members (field of ErrorUserExists, validationErrors of
\* ErrorBodyValidation).
Err(cls, code, message) ==
  [cls |-> cls, code |-> code, message |-> message,
   field |-> Null, validationErrors |-> <<>>]

ErrorAuthFailed == Err("ErrorAuthFailed", 401, <<"authFailure">>)
ErrorAuthInactiveAccount ==
  Err("ErrorAuthInactiveAccount", 403, <<"inactiveAccount">>)
ErrorAuthForbidden == Err("ErrorAuthForbidden", 403, <<"unauthorizedUserUpdate">>)
ErrorToken == Err("ErrorToken", 400, <<"tokenError">>)
ErrorUserNotFound == Err("ErrorUserNotFound", 404, <<"userNotFound">>)
ErrorSendEmailActivation ==
  Err("ErrorSendEmailActivation", 502, <<"emailFailure">>)
ErrorUserExists(field) ==
  [Err("ErrorUserExists", 400, <<"errorUserExist">>) EXCEPT !.field = field]
ErrorBodyValidation(lang, validationErrors) ==
  [Err("ErrorBodyValidation", 400, T(lang, "validationFailure"))
     EXCEPT !.validationErrors = <<validationErrors>>]
\* A failure raised by the store (unique constraint violation).
UniqueConstraintError == Err("Error", 0, <<"Validation error">>)

\* ------------------------------------------------------------ error mapper
\* An optional argument is a sequence: <<>> when it is undefined, <<v>> when
\* it is the value v (an empty map is a value, and truthy).
\* generateResponse that never attaches the field-level errors.
generateResponse_NoFieldErrors(path, message, validationErrors) ==
  [path |-> path, timeStamp |-> "now", message |-> message]

generateResponse(path, message, validationErrors) ==
  IF validationErrors # <<>>
  THEN [path |-> path, timeStamp |-> "now", message |-> message,
        validationErrors |-> validationErrors[1]]
  ELSE [path |-> path, timeStamp |-> "now", message |-> message]

\* ErrorHandle with ErrorToken left out of the list of mapped classes.
ErrorHandle_TokenUnmapped(err, req) ==
  LET path == req.originalUrl IN
  IF err.cls = "ErrorBodyValidation"
  THEN [status |-> err.code,
        body |-> generateResponse(path, err.message, err.validationErrors)]
  ELSE IF err.cls = "ErrorUserExists"
  THEN LET field == err.field
           message == <<field, ": ", req.body[field], " ">>
                        \o T(req.lang, err.message[1])
       IN [status |-> err.code,
           body |-> generateResponse(path, message,
                                     <<[f \in {field} |-> message]>>)]
  ELSE IF err.cls \in {"ErrorSendEmailActivation",
                       "ErrorUserNotFound", "ErrorAuthFailed",
                       "ErrorAuthForbidden"}
  THEN [status |-> err.code,
        body |-> generateResponse(path, T(req.lang, err.message[1]), <<>>)]
  ELSE IF err.cls = "NotAnError"
  THEN [status |-> 400,
        body |-> generateResponse(path, <<"Unknown Error">>, <<>>)]
  ELSE [status |-> 400, body |-> generateResponse(path, err.message, <<>>)]

\* ErrorHandle whose ErrorUserExists branch does not pass the field errors
\* to generateResponse.
ErrorHandle_NoFieldErrors(err, req) ==
  LET path == req.originalUrl IN
  IF err.cls = "ErrorBodyValidation"
  THEN [status |-> err.code,
        body |-> generateResponse(path, err.message, err.validationErrors)]
  ELSE IF err.cls = "ErrorUserExists"
  THEN LET field == err.field
           message == <<field, ": ", req.body[field], " ">>
                        \o T(req.lang, err.message[1])
       IN [status |-> err.code,
           body |-> generateResponse(path, message, <<>>)]
  ELSE IF err.cls \in {"ErrorSendEmailActivation", "ErrorToken",
                       "ErrorUserNotFound", "ErrorAuthFailed",
                       "ErrorAuthForbidden"}
  THEN [status |-> err.code,
        body |-> generateResponse(path, T(req.lang, err.message[1]), <<>>)]
  ELSE IF err.cls = "NotAnError"
  THEN [status |-> 400,
        body |-> generateResponse(path, <<"Unknown Error">>, <<>>)]
  ELSE [status |-> 400, body |-> generateResponse(path, err.message, <<>>)]

\* ErrorHandle without the branch of the failures answered with their own
\* code and translated message: they fall through to the last branch.
ErrorHandle_NoTranslatedKinds(err, req) ==
  LET path == req.originalUrl IN
  IF err.cls = "ErrorBodyValidation"
  THEN [status |-> err.code,
        body |-> generateResponse(path, err.message, err.validationErrors)]
  ELSE IF err.cls = "ErrorUserExists"
  THEN LET field == err.field
           message == <<field, ": ", req.body[field], " ">>
                        \o T(req.lang, err.message[1])
       IN [status |-> err.code,
           body |-> generateResponse(path, message,
                                     <<[f \in {field} |-> message]>>)]
  ELSE IF err.cls = "NotAnError"
  THEN [status |-> 400,
        body |-> generateResponse(path, <<"Unknown Error">>, <<>>)]
  ELSE [status |-> 400, body |-> generateResponse(path, err.message, <<>>)]

\* ErrorHandle whose test for a thrown value that is not an Error lost its
\* negation: an Error gets 'Unknown Error', anything else its own message.
ErrorHandle_UnknownSwapped(err, req) ==
  LET path == req.originalUrl IN
  IF err.cls = "ErrorBodyValidation"
  THEN [status |-> err.code,
        body |-> generateResponse(path, err.message, err.validationErrors)]
  ELSE IF err.cls = "ErrorUserExists"
  THEN LET field == err.field
           message == <<field, ": ", req.body[field], " ">>
                        \o T(req.lang, err.message[1])
       IN [status |-> err.code,
           body |-> generateResponse(path, message,
                                     <<[f \in {field} |-> message]>>)]
  ELSE IF err.cls \in {"ErrorSendEmailActivation", "ErrorToken",
                       "ErrorUserNotFound", "ErrorAuthFailed",
                       "ErrorAuthForbidden"}
  THEN [status |-> err.code,
        body |-> generateResponse(path, T(req.lang, err.message[1]), <<>>)]
  ELSE IF err.cls # "NotAnError"
  THEN [status |-> 400,
        body |-> generateResponse(path, <<"Unknown Error">>, <<>>)]
  ELSE [status |-> 400, body |-> generateResponse(path, err.message, <<>>)]

\* req = [originalUrl, params, body, lang]; the result is the status and the
\* body handed to res.status(..).send(..).
ErrorHandle(err, req) ==
  LET path == req.originalUrl IN
  IF err.cls = "ErrorBodyValidation"
  THEN [status |-> err.code,
        body |-> generateResponse(path, err.message, err.validationErrors)]
  ELSE IF err.cls = "ErrorUserExists"
  THEN LET field == err.field
           message == <<field, ": ", req.body[field], " ">>
                        \o T(req.lang, err.message[1])
       IN [status |-> err.code,
           body |-> generateResponse(path, message,
                                     <<[f \in {field} |-> message]>>)]
  ELSE IF err.cls \in {"ErrorSendEmailActivation", "ErrorToken",
                       "ErrorUserNotFound", "ErrorAuthFailed",
                       "ErrorAuthForbidden"}
  THEN [status |-> err.code,
        body |-> generateResponse(path, T(req.lang, err.message[1]), <<>>)]
  ELSE IF err.cls = "NotAnError"
  THEN [status |-> 400,
        body |-> generateResponse(path, <<"Unknown Error">>, <<>>)]
  ELSE [status |-> 400, body |-> generateResponse(path, err.message, <<>>)]

\* -------------------------------------------------------- validation schema
ValidField(f, v) ==
  CASE f = "username" -> v \in Usernames
    [] f = "email"    -> v \in Emails
    [] f = "password" -> v \in Passwords

ErrKey(f) ==
  CASE f = "username" -> "userSizeMin"
    [] f = "email"    -> "errorEmailInvalid"
    [] f = "password" -> "errorPassword2"
    [] OTHER          -> "customFieldNotAllowed"

\* validationErrorGenerator: the map field -> localized message of the
\* fields that break their rule; an undeclared field is an error of its own.
\* required: fields that must be present; optional: fields checked when
\* present.
validationErrorGenerator(required, optional, body, lang) ==
  LET bad == {f \in required : ~ValidField(f, body[f])}
             \cup {f \in optional : body[f] # Null /\ ~ValidField(f, body[f])}
             \cup (IF body.extra # Null THEN {body.extra} ELSE {})
  IN [f \in bad |-> T(lang, ErrKey(f))]

signUpSchema(body, lang) ==
  validationErrorGenerator({"username", "email", "password"}, {}, body, lang)
loginSchema(body, lang) ==
  validationErrorGenerator({"email", "password"}, {}, body, lang)
userUpdateSchema(body, lang) ==
  validationErrorGenerator({"username"}, {"email"}, body, lang)

\* bodyValidatorMW: <<>> when the body passes, else the error passed to next.
bodyValidatorMW(errors, lang) ==
  IF DOMAIN errors = {} THEN <<>> ELSE <<ErrorBodyValidation(lang, errors)>>

\* ------------------------------------------------------------------ store
\* The column inactive without its default of true.
DefaultInactive_Off == FALSE

\* User.init: defaultValue of the column inactive.
DefaultInactive == TRUE

\* The table without any unique column.
UniqueViolation_None(us, row) == FALSE

\* The table with username as its only unique column.
UniqueViolation_UsernameOnly(us, row) ==
  \E u \in us : u.id # row.id /\ u.username = row.username

\* User.init: unique: true on username and on email.  The row would collide
\* with another row of the table.
UniqueViolation(us, row) ==
  \E u \in us : u.id # row.id
                /\ (u.username = row.username \/ u.email = row.email)

\* User.hasMany(Auth, onDelete cascade): the session records that survive
\* the deletion of user id.
\* An association without onDelete: the records of a deleted user stay.
CascadeDelete_None(as, id) == as

CascadeDelete(as, id) == {a \in as : a.userID # id}

\* ------------------------------------------------------------------ state
VARIABLES
  users,    \* rows of the table of users
  auths,    \* session credential records [token, userID]
  nextId,   \* next autoincrement id of the table of users
  issued,   \* number of activation tokens generated so far
  mails,    \* activation notifications dispatched, in order: [to, token]
  pc,       \* position of each signup handler
  pbody,    \* request of each signup handler in flight: [body, lang]
  last      \* the latest request answered and its response

vars == <<users, auths, nextId, issued, mails, pc, pbody, last>>

NoRequest == [body |-> Null, lang |-> Null]

\* An express request, as far as the handlers read it.
Request(url, params, body, lang) ==
  [originalUrl |-> url, params |-> params, body |-> body, lang |-> lang]

\* next(err): the error reaches the error-handling middleware.
nextError(err, req) ==
  [err |-> err.cls, r |-> ErrorHandle(err, req), url |-> req.originalUrl]

\* res.send(body) of a handler that did not fail.
send(body) ==
  [err |-> "none", r |-> [status |-> 200, body |-> body], url |-> Null]

\* The record of an answered request: a is [err, r, url], r is [status, body],
\* url is the URL of the request the error mapper answered (Null: no error).
Answer(kind, proc, req, outcome, a) ==
  [kind |-> kind, proc |-> proc, req |-> req, outcome |-> outcome,
   err |-> a.err, status |-> a.r.status, body |-> a.r.body, url |-> a.url]

Init ==
  /\ users = {}
  /\ auths = {}
  /\ nextId = 1
  /\ issued = 0
  /\ mails = <<>>
  /\ pc = [p \in Procs |-> "idle"]
  /\ pbody = [p \in Procs |-> NoRequest]
  /\ last = Answer("none", Null, NoRequest, "none",
                   [err |-> "none", r |-> [status |-> 0, body |-> Null],
                    url |-> Null])

\* ----------------------------------------------------------------- signup
SignUpUrl == "/api/1.0/users"

InFlight == Cardinality({p \in Procs : pc[p] # "idle"})

\* The field of the first collision found by the existence check: username
\* is looked up before email.
ExistingField(us, body) ==
  IF \E u \in us : u.username = body.username THEN "username"
  ELSE IF \E u \in us : u.email = body.email THEN "email"
  ELSE Null

\* POST /api/1.0/users, up to the existence check: bodyValidatorMW, then the
\* controller's lookup of username and email.
\* A route registered without its middlewares: the controller alone.
routerConfig_ControllerOnly(invalid, rejected, controller) == controller

\* router[method](path, ...middlewares, controller): the validation
\* middleware runs first; when it passes an error to next() (invalid # <<>>)
\* the request is rejected and the controller never runs.
routerConfig(invalid, rejected, controller) ==
  IF invalid # <<>> THEN rejected ELSE controller

SignUpReceive(p, body, lang) ==
  /\ pc[p] = "idle"
  /\ issued + InFlight < MaxSignups
  /\ LET req == Request(SignUpUrl, Null, body, lang)
         invalid == bodyValidatorMW(signUpSchema(body, lang), lang)
         field == ExistingField(users, body)
     IN routerConfig(invalid,
          /\ last' = Answer("signup", p, req, "ValidationFailure",
                            nextError(invalid[1], req))
          /\ UNCHANGED <<pc, pbody>>,
          IF field # Null
          THEN /\ last' = Answer("signup", p, req, "DuplicateField",
                                 nextError(ErrorUserExists(field), req))
               /\ UNCHANGED <<pc, pbody>>
          ELSE /\ pc' = [pc EXCEPT ![p] = "create"]
               /\ pbody' = [pbody EXCEPT ![p].body = body, ![p].lang = lang]
               /\ UNCHANGED last)
  /\ UNCHANGED <<users, auths, nextId, issued, mails>>

\* The row built by the controller: hashed password, fresh activation token,
\* inactive left to the column default.
NewUser(id, body, token) ==
  [id |-> id, username |-> body.username, email |-> body.email,
   password |-> Hash(body.password), inactive |-> DefaultInactive,
   activationToken |-> token]

\* The rest of the controller: the insert of the row, which the store
\* rejects when a unique column collides, then the activation notification
\* and the response.  ok: whether the transport accepted the message.
SignUpCreate(p, ok) ==
  /\ pc[p] = "create"
  /\ LET body == pbody[p].body
         lang == pbody[p].lang
         req == Request(SignUpUrl, Null, body, lang)
         row == NewUser(nextId, body, GenerateToken(issued + 1))
     IN /\ issued' = issued + 1
        /\ IF UniqueViolation(users, row)
           THEN /\ last' = Answer("signup", p, req, "UnexpectedFailure",
                                  nextError(UniqueConstraintError, req))
                /\ UNCHANGED <<users, nextId, mails>>
           ELSE /\ users' = users \cup {row}
                /\ nextId' = nextId + 1
                /\ IF ok
                   THEN /\ mails' = Append(mails,
                                      [to |-> body.email,
                                       token |-> row.activationToken])
                        /\ last' = Answer("signup", p, req, "Created",
                              send([signUpStatus |-> "success",
                                    message |-> T(lang, "userCreated"),
                                    user |-> [id |-> row.id,
                                              username |-> row.username,
                                              email |-> row.email]]))
                   ELSE /\ last' = Answer("signup", p, req,
                                          "SendEmailFailure",
                                          nextError(ErrorSendEmailActivation,
                                                    req))
                        /\ UNCHANGED mails
  /\ pc' = [pc EXCEPT ![p] = "idle"]
  /\ pbody' = [pbody EXCEPT ![p] = NoRequest]
  /\ UNCHANGED auths

\* ------------------------------------------------------------- activation
\* Tokens a client can present: those that reached a mailbox, and one that
\* was never issued (activation tokens cannot be guessed).
KnownTokens == {mails[i].token : i \in DOMAIN mails} \cup {InvalidToken}

\* POST /api/1.0/users/token/:token
ActivateAccount(token, lang) ==
  LET req == Request("/api/1.0/users/token/:token", [token |-> token],
                     Null, lang)
      found == {u \in users : u.activationToken = token}
  IN /\ IF found = {}
        THEN /\ last' = Answer("activate", Null, req, "InvalidToken",
                               nextError(ErrorToken, req))
             /\ UNCHANGED users
        ELSE LET u == CHOOSE x \in found : TRUE IN
             /\ users' = (users \ {u})
                  \cup {[u EXCEPT !.inactive = FALSE,
                                  !.activationToken = Null]}
             /\ last' = Answer("activate", Null, req, "Activated",
                               send([message |-> T(lang, "accountActivated")]))
     /\ UNCHANGED <<auths, nextId, issued, mails, pc, pbody>>

\* --------------------------------------------------------- authentication
AuthUrl == "/api/1.0/auth"
LocalFailureUrl == "/api/1.0/auth/localFailure"

\* The gate at which a validated login attempt is decided.
Gate(us, body) ==
  LET found == {u \in us : u.email = body.email} IN
  IF found = {} THEN "NotFound"
  ELSE LET u == CHOOSE x \in found : TRUE IN
       IF u.inactive THEN "Inactive"
       ELSE IF ~Compare(body.password, u.password) THEN "PasswordMismatch"
       ELSE "Success"

\* The local strategy: the user handed to the controller (<<>> when the
\* attempt fails) and the flash messages left for the failure route.
LocalStrategy(us, body) ==
  LET g == Gate(us, body) IN
  IF g = "Success"
  THEN [user |-> <<CHOOSE u \in us : u.email = body.email>>, flash |-> <<>>]
  ELSE IF g = "Inactive"
  THEN [user |-> <<>>, flash |-> <<"inactive">>]
  ELSE IF g = "NotFound"
  THEN [user |-> <<>>, flash |-> <<"Incorrect email">>]
  ELSE [user |-> <<>>, flash |-> <<"Incorrect password">>]

\* AuthHelperController.httpPostAuth: reqUser is <<>> or <<user>>.
httpPostAuth(reqUser, req) ==
  IF reqUser = <<>>
  THEN nextError(ErrorAuthFailed, req)
  ELSE send([id |-> reqUser[1].id, username |-> reqUser[1].username])

\* localAuthFailure handing the flash message on as the failure's message.
localAuthFailure_FlashMessage(flash, req) ==
  IF Len(flash) > 0 /\ flash[1] = "inactive"
  THEN nextError(ErrorAuthInactiveAccount, req)
  ELSE nextError(Err("ErrorAuthFailed", 401, flash), req)

\* AuthHelperController.localAuthFailure: flash is req.flash('error').
localAuthFailure(flash, req) ==
  IF Len(flash) > 0 /\ flash[1] = "inactive"
  THEN nextError(ErrorAuthInactiveAccount, req)
  ELSE nextError(ErrorAuthFailed, req)

\* The whole login attempt: validation, the strategy, then the controller
\* or, after the redirect, the failure route.  The result is the outcome
\* (the gate that decided the attempt) and the answer [err, r].
LoginResponse(us, body, lang) ==
  LET invalid == bodyValidatorMW(loginSchema(body, lang), lang)
      s == LocalStrategy(us, body)
  IN routerConfig(invalid,
       [outcome |-> "ValidationFailure",
        a |-> nextError(invalid[1], Request(AuthUrl, Null, body, lang))],
       IF s.user # <<>>
       THEN [outcome |-> Gate(us, body),
             a |-> httpPostAuth(s.user, Request(AuthUrl, Null, body, lang))]
       ELSE [outcome |-> Gate(us, body),
             a |-> localAuthFailure(s.flash,
                                    Request(LocalFailureUrl, Null, body,
                                            lang))])

\* POST /api/1.0/auth
Login(body, lang) ==
  LET l == LoginResponse(users, body, lang) IN
  /\ last' = Answer("login", Null, Request(AuthUrl, Null, body, lang),
                    l.outcome, l.a)
  /\ UNCHANGED <<users, auths, nextId, issued, mails, pc, pbody>>

\* ------------------------------------------------------ update and delete
UserUrl == "/api/1.0/users/:id"

\* The identities a request can be authenticated as: nobody (<<>>), or a
\* user who can log in, that is, an active one.
Identities == {<<>>} \cup {<<u.id>> : u \in {x \in users : ~x.inactive}}

Ids == 1..MaxSignups

\* A request to a route that acts for the authenticated user: user is <<>>
\* for a request without valid credentials, <<id>> for one authenticated as
\* the user id.
AuthRequest(url, params, body, lang, user) ==
  [originalUrl |-> url, params |-> params, body |-> body, lang |-> lang,
   user |-> user]

\* PUT /api/1.0/users/:id
UpdateUser(id, auth, body, lang) ==
  LET req == AuthRequest(UserUrl, [id |-> id], body, lang, auth)
      invalid == bodyValidatorMW(userUpdateSchema(body, lang), lang)
  IN /\ routerConfig(invalid,
          /\ last' = Answer("update", Null, req, "ValidationFailure",
                            nextError(invalid[1], req))
          /\ UNCHANGED users,
          IF auth = <<>> \/ auth # <<id>>
          THEN /\ last' = Answer("update", Null, req, "Forbidden",
                                 nextError(ErrorAuthForbidden, req))
               /\ UNCHANGED users
          ELSE LET u == CHOOSE x \in users : x.id = id
                   row == [u EXCEPT !.username = body.username,
                                    !.email = IF body.email = Null
                                              THEN u.email ELSE body.email]
               IN IF UniqueViolation(users, row)
                  THEN /\ last' = Answer("update", Null, req,
                                         "UnexpectedFailure",
                                         nextError(UniqueConstraintError,
                                                   req))
                       /\ UNCHANGED users
                  ELSE /\ users' = (users \ {u}) \cup {row}
                       /\ last' = Answer("update", Null, req, "Updated",
                                         send([id |-> row.id,
                                               username |-> row.username])))
     /\ UNCHANGED <<auths, nextId, issued, mails, pc, pbody>>

\* DELETE /api/1.0/users/:id
DeleteUser(id, auth, lang) ==
  LET req == AuthRequest(UserUrl, [id |-> id], Null, lang, auth)
  IN /\ IF auth = <<>> \/ auth # <<id>>
        THEN /\ last' = Answer("delete", Null, req, "Forbidden",
                               nextError(ErrorAuthForbidden, req))
             /\ UNCHANGED <<users, auths>>
        ELSE /\ users' = {u \in users : u.id # id}
             /\ auths' = CascadeDelete(auths, id)
             /\ last' = Answer("delete", Null, req, "Deleted",
                               send([message |-> T(lang, "userDeleted")]))
     /\ UNCHANGED <<nextId, issued, mails, pc, pbody>>

\* ---------------------------------------------------------- specification
Next ==
  \/ \E p \in Procs, body \in SignUpBodies, lang \in Langs :
       SignUpReceive(p, body, lang)
  \/ \E p \in Procs, ok \in BOOLEAN : SignUpCreate(p, ok)
  \/ \E token \in KnownTokens, lang \in Langs : ActivateAccount(token, lang)
  \/ \E body \in LoginBodies, lang \in Langs : Login(body, lang)
  \/ \E id \in Ids, auth \in Identities, body \in UpdateBodies, lang \in Langs :
       UpdateUser(id, auth, body, lang)
  \/ \E id \in Ids, auth \in Identities, lang \in Langs :
       DeleteUser(id, auth, lang)

Spec == Init /\ [][Next]_vars

\* ------------------------------------------------ sessions and the cascade
\* The identities a request can be authenticated as when a request is
\* authenticated by a token: the owner of a stored session record.
SessionIdentities == {<<>>} \cup {<<a.userID>> : a \in auths}

\* A login that passes every gate stores a session record, the association
\* of a fresh opaque token with the id of the user, and answers with it.
CreateSession(body, lang) ==
  /\ Gate(users, body) = "Success"
  /\ Cardinality(auths) < MaxSessions
  /\ issued + InFlight < MaxSignups + MaxSessions
  /\ LET u == CHOOSE x \in users : x.email = body.email
         token == GenerateToken(issued + 1)
     IN /\ auths' = auths \cup {[userID |-> u.id, token |-> token]}
        /\ issued' = issued + 1
        /\ last' = Answer("session", Null,
                          Request(AuthUrl, Null, body, lang), "Success",
                          send([id |-> u.id, username |-> u.username,
                                token |-> token]))
  /\ UNCHANGED <<users, nextId, mails, pc, pbody>>

SessionNext ==
  \/ \E p \in Procs, body \in SignUpBodies : SignUpReceive(p, body, "en")
  \/ \E p \in Procs, ok \in BOOLEAN : SignUpCreate(p, ok)
  \/ \E token \in KnownTokens : ActivateAccount(token, "en")
  \/ \E body \in LoginBodies : CreateSession(body, "en")
  \/ \E id \in Ids, auth \in SessionIdentities : DeleteUser(id, auth, "en")

SessionSpec == Init /\ [][SessionNext]_vars

\* ------------------------------------------------- the error mapper alone
\* The values a handler can pass to next(): the domain failures, an Error of
\* any other class with or without a message text, and a thrown value that
\* is not an Error, with or without a message property.
Failures ==
  {ErrorAuthFailed, ErrorAuthInactiveAccount, ErrorAuthForbidden, ErrorToken,
   ErrorUserNotFound, ErrorSendEmailActivation, UniqueConstraintError,
   ErrorUserExists("username"), ErrorUserExists("email")}
  \cup {ErrorBodyValidation(lang, [f \in {"email"} |->
                                     T(lang, "errorEmailInvalid")]) :
          lang \in Langs}
  \cup {Err(cls, 0, message) :
          cls \in {"Error", "NotAnError"},
          message \in {<<>>, <<"Some Errors!!!!!">>,
                       <<"Something went wrong">>}}

Urls == {SignUpUrl, AuthUrl, LocalFailureUrl, UserUrl}

\* A handler serving a request of the given URL, body and language passes
\* the failure e to next(); the mapper answers.
Raise(e, url, body, lang) ==
  LET req == Request(url, Null, body, lang)
      r == ErrorHandle(e, req)
  IN /\ last' = [kind |-> "failure", proc |-> Null, req |-> req,
                 outcome |-> "Failure", err |-> e.cls,
                 status |-> r.status, body |-> r.body, thrown |-> e]
     /\ UNCHANGED <<users, auths, nextId, issued, mails, pc, pbody>>

MapperNext ==
  \E e \in Failures, url \in Urls, body \in SignUpBodies, lang \in Langs :
    Raise(e, url, body, lang)

MapperSpec == Init /\ [][MapperNext]_vars

\* ================================================================= claims

\* C1: every stored user is either inactive with an activation token or
\* active with no activation token, whatever requests have been served.
C1_InactiveIffToken ==
  \A u \in users :
    \/ u.inactive /\ u.activationToken # Null
    \/ ~u.inactive /\ u.activationToken = Null

\* C1 witness: an activated user and a not yet activated one are stored
\* together, and an update has just been applied.
C1_Witness ==
  /\ \E u \in users : u.inactive /\ u.activationToken # Null
  /\ \E u \in users : ~u.inactive /\ u.activationToken = Null
  /\ last.outcome = "Updated"

\* The body of a validated login attempt.
ValidLogin(body) == DOMAIN loginSchema(body, "en") = {}

\* C2: a validated login attempt is decided by the gates in order: no user
\* with the email gives the generic failure; else an inactive user gives the
\* inactive-account failure whatever the password; else a wrong password
\* gives the generic failure; else a session token is issued.  No session
\* record ever belongs to an inactive user.
C2_LoginGates ==
  /\ (last.kind = "login" /\ ValidLogin(last.req.body)) =>
       LET found == {u \in users : u.email = last.req.body.email} IN
       IF found = {} THEN last.err = "ErrorAuthFailed"
       ELSE IF \E u \in found : u.inactive
       THEN last.err = "ErrorAuthInactiveAccount"
       ELSE IF \E u \in found : ~Compare(last.req.body.password, u.password)
       THEN last.err = "ErrorAuthFailed"
       ELSE /\ last.err = "none"
            /\ "token" \in DOMAIN last.body
  /\ \A a \in auths : \A u \in users : u.id = a.userID => ~u.inactive

\* C3: a successful login answers 200 with exactly the keys id, username
\* and token, and a session record ties that token to the user's id.
C3_LoginSuccess ==
  (last.kind = "login" /\ last.outcome = "Success") =>
    /\ last.status = 200
    /\ DOMAIN last.body = {"id", "username", "token"}
    /\ \E a \in auths : a.token = last.body.token /\ a.userID = last.body.id

\* C4: the error mapper answers an inactive-account failure with 403 and
\* the localized inactive-account message, which is not the generic
\* message, and answers a generic authentication failure with 401 and a
\* message without validationErrors.
C4_AuthFailureMapping ==
  /\ (last.kind = "login" /\ last.err = "ErrorAuthInactiveAccount") =>
       /\ last.status = 403
       /\ last.body.message = T(last.req.lang, "inactiveAccount")
       /\ last.body.message # T(last.req.lang, "authFailure")
  /\ (last.kind = "login" /\ last.err = "ErrorAuthFailed") =>
       /\ last.status = 401
       /\ last.body.message = T(last.req.lang, "authFailure")
       /\ "validationErrors" \notin DOMAIN last.body

\* A request has just been answered: the record of the latest answer
\* changed.  (Records of different kinds of request have different shapes,
\* so the kind and the outcome are compared first.)
Answered ==
  \/ last'.kind # last.kind
  \/ last'.outcome # last.outcome
  \/ last'.req # last.req
  \/ last'.body # last.body

\* C5: an activation whose token matches a stored user makes that user
\* active and clears the token; an activation whose token matches no user,
\* as every later one with a consumed token does, fails with InvalidToken
\* and changes no user; a token that matches no user never matches again.
C5_Activation ==
  [][/\ (last'.kind = "activate" /\ Answered) =>
          LET tk == last'.req.params.token
              found == {u \in users : u.activationToken = tk}
          IN IF found # {}
             THEN /\ last'.err = "none"
                  /\ last'.status = 200
                  /\ users' = (users \ found) \cup
                       {[u EXCEPT !.inactive = FALSE,
                                  !.activationToken = Null] : u \in found}
                  /\ \A u \in users' : u.activationToken # tk
             ELSE /\ last'.err = "ErrorToken"
                  /\ last'.status = 400
                  /\ last'.body.message = T(last'.req.lang, "tokenError")
                  /\ users' = users
     /\ \A tk \in KnownTokens :
          (\A u \in users : u.activationToken # tk) =>
            (\A u \in users' : u.activationToken # tk)
    ]_vars

\* C5 witness: a token that activated a user is presented again and is
\* refused while that user is stored as active.
C5_Witness ==
  /\ last.kind = "activate"
  /\ last.err = "ErrorToken"
  /\ \E i \in DOMAIN mails :
       /\ mails[i].token = last.req.params.token
       /\ \E u \in users : u.email = mails[i].to /\ ~u.inactive

\* No two rows of us share a username or an email.
NoDuplicates(us) ==
  \A u, v \in us : u # v => u.username # v.username /\ u.email # v.email

\* Some row of us other than row id holds the username, or the email.
Taken(us, id, username, email) ==
  \E u \in us : u.id # id /\ (u.username = username \/ u.email = email)

\* C6: no two stored users ever share a username or an email, and a signup
\* or an update whose row would share one with another user fails and
\* writes nothing.
C6_Uniqueness ==
  [][/\ NoDuplicates(users')
     /\ \A p \in Procs :
          (pc[p] = "create" /\ pc'[p] = "idle"
           /\ Taken(users, 0, pbody[p].body.username, pbody[p].body.email))
          => users' = users /\ last'.proc = p /\ last'.status >= 400
     /\ (last'.kind = "update" /\ Answered
         /\ Taken(users, last'.req.params.id, last'.req.body.username,
                  last'.req.body.email))
          => users' = users /\ last'.status >= 400
    ]_vars

\* C6 witness: two users are stored and an authenticated update that asked
\* for the other user's username has been refused by the store.
C6_Witness ==
  /\ Cardinality(users) = 2
  /\ last.kind = "update"
  /\ last.outcome = "UnexpectedFailure"
  /\ \E u \in users : u.id # last.req.params.id
                      /\ u.username = last.req.body.username

\* C7: when a signup that passed the existence check reaches the insert
\* after a user with its username or email was stored, the store rejects
\* the insert: nothing is written or mailed, the request is answered with
\* an error, and at most one user holds that username and that email.
C7_ConcurrentSignup ==
  [][\A p \in Procs :
       (pc[p] = "create" /\ pc'[p] = "idle") =>
         LET b == pbody[p].body IN
         /\ Taken(users, 0, b.username, b.email) =>
              /\ users' = users
              /\ mails' = mails
              /\ last'.kind = "signup" /\ last'.proc = p
              /\ last'.err # "none" /\ last'.status >= 400
         /\ Cardinality({u \in users' : u.username = b.username}) <= 1
         /\ Cardinality({u \in users' : u.email = b.email}) <= 1
    ]_vars

\* C7 witness: a signup lost the race: it passed the existence check, its
\* insert was rejected, and the winner's row holds its username or email.
C7_Witness ==
  /\ last.kind = "signup"
  /\ last.outcome = "UnexpectedFailure"
  /\ last.status >= 400
  /\ Cardinality({u \in users : \/ u.username = last.req.body.username
                                \/ u.email = last.req.body.email}) = 1

\* The body of a validated signup request.
ValidSignUp(body) == DOMAIN signUpSchema(body, "en") = {}

\* C8: a validated signup whose username or email is stored when the
\* request arrives is answered 400 with the message
\* '<field>: <value> <already-exists text>' and a validationErrors map whose
\* only key is the colliding field (username when both collide) and whose
\* value is that message; no user is written and nothing is mailed.
C8_DuplicateSignup ==
  [][(/\ last'.kind = "signup"
      /\ Answered
      /\ pc[last'.proc] = "idle"
      /\ ValidSignUp(last'.req.body)
      /\ Taken(users, 0, last'.req.body.username, last'.req.body.email))
     =>
      LET b == last'.req.body
          field == IF \E u \in users : u.username = b.username
                   THEN "username" ELSE "email"
          message == <<field, ": ", b[field], " ">>
                       \o T(last'.req.lang, "errorUserExist")
      IN /\ last'.status = 400
         /\ last'.body.message = message
         /\ "validationErrors" \in DOMAIN last'.body
         /\ DOMAIN last'.body.validationErrors = {field}
         /\ last'.body.validationErrors[field] = message
         /\ users' = users
         /\ mails' = mails
    ]_vars

\* C8 witness: a signup repeating both the username and the email of a
\* stored user has been refused, and the error is keyed by username.
C8_Witness ==
  /\ last.kind = "signup"
  /\ last.outcome = "DuplicateField"
  /\ \E u \in users : /\ u.username = last.req.body.username
                      /\ u.email = last.req.body.email
  /\ DOMAIN last.body.validationErrors = {"username"}

\* The latest answer is that of a signup that passed validation and the
\* existence check.
SignUpAccepted ==
  /\ last.kind = "signup"
  /\ last.outcome \notin {"ValidationFailure", "DuplicateField"}

\* What C9 promises of an answered signup: status 200, one stored user
\* with the username and email, inactive, with a token and a password that
\* is not the plaintext, one notification with that token to that email,
\* and a body with id, username and email and no password or token.
SignUpPost(us, ms, answer) ==
  LET b == answer.req.body
      rows == {u \in us : u.username = b.username /\ u.email = b.email}
  IN /\ answer.status = 200
     /\ Cardinality(rows) = 1
     /\ \A u \in rows :
          /\ u.inactive = TRUE
          /\ u.activationToken \notin {Null, ""}
          /\ u.password # b.password
          /\ Cardinality({i \in DOMAIN ms :
                            ms[i] = [to |-> b.email,
                                     token |-> u.activationToken]}) = 1
          /\ Cardinality({i \in DOMAIN ms :
                            ms[i].token = u.activationToken}) = 1
          /\ DOMAIN answer.body = {"signUpStatus", "message", "user"}
          /\ answer.body.user = [id |-> u.id, username |-> u.username,
                                 email |-> u.email]

C10_Indistinguishable ==
  /\ \A b1, b2 \in LoginBodies : \A lang \in Langs :
       (/\ ValidLogin(b1) /\ ValidLogin(b2)
        /\ \A u \in users : u.email # b1.email
        /\ \E u \in users : /\ u.email = b2.email /\ ~u.inactive
                            /\ ~Compare(b2.password, u.password))
       => LET r1 == LoginResponse(users, b1, lang).a.r
              r2 == LoginResponse(users, b2, lang).a.r
          IN /\ r1.status = 401 /\ r2.status = 401
             /\ r1.body.message = r2.body.message
             /\ r1.body.message = T(lang, "authFailure")
             /\ DOMAIN r1.body = {"path", "timeStamp", "message"}
             /\ DOMAIN r2.body = {"path", "timeStamp", "message"}
  /\ (last.kind = "login"
      /\ last.outcome \in {"NotFound", "PasswordMismatch"})
     => /\ last.status = 401
        /\ last.body.message = T(last.req.lang, "authFailure")
        /\ "validationErrors" \notin DOMAIN last.body

\* C10 witness: one email is unknown, another belongs to an active user,
\* and a login with that user's email and a wrong password was answered.
C10_Witness ==
  /\ \E e \in Emails : \A u \in users : u.email # e
  /\ last.kind = "login"
  /\ last.outcome = "PasswordMismatch"
  /\ last.status = 401
  /\ \E u \in users : u.email = last.req.body.email /\ ~u.inactive

\* The latest answer is that of the mapper to a failure that is not one of
\* the domain failure kinds.
UnexpectedFailure ==
  last.kind = "failure" /\ last.thrown.cls \in {"Error", "NotAnError"}

\* C11 as stated: a failure that is not a domain failure is answered 400
\* with the failure's message text, or 'Unknown Error' when it carries no
\* message.
C11_Original ==
  UnexpectedFailure =>
    /\ last.status = 400
    /\ last.body.message = IF last.thrown.message = <<>>
                           THEN <<"Unknown Error">>
                           ELSE last.thrown.message

\* C11 as amended: a failure that is not a domain failure is answered 400
\* with the failure's message text when it is an Error object, and with
\* 'Unknown Error' when it is not an Error object, whatever message it
\* carries.
C11_UnexpectedFailure ==
  UnexpectedFailure =>
    /\ last.status = 400
    /\ last.body.message = IF last.thrown.cls = "NotAnError"
                           THEN <<"Unknown Error">>
                           ELSE last.thrown.message
    /\ DOMAIN last.body = {"path", "timeStamp", "message"}

\* C11 witness: a thrown value that is not an Error and carries a message
\* has been answered 400 'Unknown Error'.
C11_Witness ==
  /\ UnexpectedFailure
  /\ last.thrown.cls = "NotAnError"
  /\ last.thrown.message = <<"Something went wrong">>
  /\ last.status = 400
  /\ last.body.message = <<"Unknown Error">>

SchemaErrors(kind, body) ==
  CASE kind = "signup" -> signUpSchema(body, "en")
    [] kind = "login"  -> loginSchema(body, "en")
    [] kind = "update" -> userUpdateSchema(body, "en")

\* C13: a signup, login or update request whose payload fails its schema is
\* answered 400 as a validation failure in a step that leaves the user
\* store, the session records and the dispatched notifications unchanged,
\* and no signup controller ever runs on a payload that fails the schema.
C13_ValidationFirst ==
  [][/\ (/\ Answered
         /\ last'.kind \in {"signup", "login", "update"}
         /\ DOMAIN SchemaErrors(last'.kind, last'.req.body) # {})
        => /\ last'.status = 400
           /\ last'.err = "ErrorBodyValidation"
           /\ DOMAIN last'.body.validationErrors
                = DOMAIN SchemaErrors(last'.kind, last'.req.body)
           /\ UNCHANGED <<users, auths, mails, nextId, issued, pc, pbody>>
     /\ \A p \in Procs :
          pc'[p] = "create" => DOMAIN signUpSchema(pbody'[p].body, "en") = {}
    ]_vars

\* C13 witness: with a user stored, an update whose payload carries the
\* undeclared field inactive, sent by that user, has been answered 400.
C13_Witness ==
  /\ last.kind = "update"
  /\ last.req.body.extra = "inactive"
  /\ last.status = 400
  /\ last.err = "ErrorBodyValidation"
  /\ "inactive" \in DOMAIN last.body.validationErrors
  /\ \E u \in users : u.id = last.req.params.id /\ ~u.inactive

\* C14: a user is created inactive, and the inactive flag of a stored user
\* changes only from true to false and only in the step of a successful
\* activation with that user's token; no other step, and no failed request,
\* changes the flag of any user, and an active user never becomes inactive.
C14_InactiveFlag ==
  [][\A v \in users' :
       LET old == {u \in users : u.id = v.id} IN
       IF old = {}
       THEN v.inactive = TRUE
       ELSE \A u \in old :
              u.inactive # v.inactive =>
                /\ u.inactive = TRUE
                /\ v.inactive = FALSE
                /\ last'.kind = "activate"
                /\ last'.outcome = "Activated"
                /\ last'.err = "none"
                /\ last'.req.params.token = u.activationToken
    ]_vars

\* C14 witness: an activated user has updated its own record and is still
\* active, while another stored user is still inactive.
C14_Witness ==
  /\ last.kind = "update"
  /\ last.outcome = "Updated"
  /\ \E u \in users : u.id = last.req.params.id /\ ~u.inactive
  /\ \E u \in users : u.inactive

\* The latest step answered a PUT or DELETE on /api/1.0/users/:id.
UpdateOrDelete == Answered /\ last'.kind \in {"update", "delete"}

\* C15 as stated: a PUT or DELETE changes the store only when the requester
\* is authenticated as the user with that id, and any request that is
\* unauthenticated or authenticated as another user is answered 403 and
\* leaves every user and session record unchanged.
C15_Original ==
  [][UpdateOrDelete =>
       LET id == last'.req.params.id
           user == last'.req.user
       IN /\ (users' # users \/ auths' # auths) => user = <<id>>
          /\ user # <<id>> => /\ last'.status = 403
                              /\ last'.err = "ErrorAuthForbidden"
                              /\ UNCHANGED <<users, auths>>
    ]_vars

\* C15 as amended: a PUT or DELETE changes the store only when the requester
\* is authenticated as the user with that id; a request that is
\* unauthenticated or authenticated as another user leaves every user and
\* session record unchanged, and is answered 403 unless it is a PUT whose
\* payload fails the update schema, which is answered 400.
C15_OwnerOnly ==
  [][UpdateOrDelete =>
       LET id == last'.req.params.id
           user == last'.req.user
           invalid == /\ last'.kind = "update"
                      /\ DOMAIN userUpdateSchema(last'.req.body, "en") # {}
       IN /\ (users' # users \/ auths' # auths) => user = <<id>>
          /\ user # <<id>> =>
               /\ UNCHANGED <<users, auths>>
               /\ IF invalid
                  THEN last'.status = 400 /\ last'.err = "ErrorBodyValidation"
                  ELSE /\ last'.status = 403
                       /\ last'.err = "ErrorAuthForbidden"
    ]_vars

\* C15 witness: with two users stored, a DELETE of one of them sent by the
\* other, who is active, has been answered 403 and both are still stored.
C15_Witness ==
  /\ last.kind = "delete"
  /\ last.req.user # <<>>
  /\ last.req.user # <<last.req.params.id>>
  /\ last.status = 403
  /\ \E u \in users : u.id = last.req.params.id
  /\ \E u \in users : <<u.id>> = last.req.user

C17_DispatchFailure ==
  [][\A p \in Procs :
       (/\ pc[p] = "create" /\ pc'[p] = "idle"
        /\ last'.outcome = "SendEmailFailure")
       =>
        /\ last'.kind = "signup" /\ last'.proc = p
        /\ last'.req.body = pbody[p].body
        /\ last'.err = "ErrorSendEmailActivation"
        /\ last'.status >= 400
        /\ last'.body.message = T(last'.req.lang, "emailFailure")
        /\ DOMAIN last'.body = {"path", "timeStamp", "message"}
        /\ mails' = mails
        /\ users \subseteq users'
        /\ \E u \in users' \ users :
             /\ users' = users \cup {u}
             /\ u.username = pbody[p].body.username
             /\ u.email = pbody[p].body.email
             /\ u.inactive = TRUE
             /\ u.activationToken # Null
             /\ \A i \in DOMAIN mails' : mails'[i].token # u.activationToken
    ]_vars

\* C17 witness: a signup has been answered with the dispatch failure and
\* its user is stored inactive with a token that reached no mailbox.
C17_Witness ==
  /\ last.kind = "signup"
  /\ last.outcome = "SendEmailFailure"
  /\ last.status >= 400
  /\ \E u \in users :
       /\ u.username = last.req.body.username
       /\ u.inactive
       /\ u.activationToken # Null
       /\ \A i \in DOMAIN mails : mails[i].token # u.activationToken

====
